---- MODULE Spec2Model ----
(***************************************************************************)
(* Model of the Mini Apps SDK: the WebApp component (its synchronous       *)
(* methods, its request-style methods and the request/response correlator  *)
(* they rest on), the navigator initialisation with its session-storage    *)
(* snapshot, and the singleton of the Mini Apps event emitter.             *)
(***************************************************************************)
EXTENDS Integers, Sequences, FiniteSets, TLC

VARIABLES
    version,     \* WebApp.currentVersion, fixed by the constructor
    state,       \* WebApp.state: [headerColor, backgroundColor]
    calls,       \* pending request() calls, by slot; NoCall marks a free slot
    listeners,   \* slots whose listener is subscribed to the bridge event stream
    last,        \* what the most recent operation did, as its caller and the host see it
    storage,     \* the text session storage holds under the navigator's key
    reload,      \* isPageReload(): the page was loaded by a reload
    location,    \* window.location of the page
    navigator,   \* the navigator initNavigator returned: [index, history]
    cached,      \* the instance createSingleton holds, by number; 0 when it holds none
    emitters,    \* every emitter instance created so far: [listeners, cleanups]
    emitting     \* the emit call in progress: [instance, event, queue]

webAppVars == <<version, state, calls, listeners>>
pageVars == <<storage, reload, location, navigator>>
emitterVars == <<cached, emitters, emitting>>
vars == <<version, state, calls, listeners, last, storage, reload, location, navigator,
          cached, emitters, emitting>>

(***************************************************************************)
(* Bounds and input samples.                                               *)
(***************************************************************************)
\* Number of request() calls that may be pending at the same time.
MaxCalls == 2

\* Longest history of the navigator.
MaxHistory == 2

\* The version strings the host may report, as tuples of their components.
Versions == {<<5, 9>>, <<6, 0>>, <<6, 1>>, <<6, 10>>}

\* sendData limit, in bytes.
MaxDataSize == 4096

\* A string of `chars` characters, each taking `bytes` bytes in UTF-8.
DataSamples ==
    { [chars |-> 0, bytes |-> 1], [chars |-> 1, bytes |-> 1],
      [chars |-> 4096, bytes |-> 1], [chars |-> 4097, bytes |-> 1],
      [chars |-> 2048, bytes |-> 2], [chars |-> 2049, bytes |-> 2],
      [chars |-> 1365, bytes |-> 3], [chars |-> 1366, bytes |-> 3] }

HeaderColors == {"bg_color", "#aabbcc"}
RGBColors == {"#aabbcc", "#000000", "#ffffff"}
BackgroundColors == {"#ffffff", "#000000"}

\* Host of the page the Mini App is served from: relative URLs resolve to it.
AppHost == "app.example"

\* URLs as the caller passes them. A pathname is "/" \o prefix \o slug.
Urls ==
    { [abs |-> TRUE,  hostname |-> "t.me",        prefix |-> "invoice/", slug |-> "s1", search |-> ""],
      [abs |-> TRUE,  hostname |-> "t.me",        prefix |-> "$",        slug |-> "s2", search |-> "?a=1"],
      [abs |-> TRUE,  hostname |-> "t.me",        prefix |-> "join/",    slug |-> "s1", search |-> ""],
      [abs |-> TRUE,  hostname |-> "t.me",        prefix |-> "invoice/", slug |-> "s 1", search |-> ""],
      [abs |-> TRUE,  hostname |-> "example.com", prefix |-> "invoice/", slug |-> "s1", search |-> ""],
      [abs |-> FALSE, hostname |-> "",            prefix |-> "$",        slug |-> "s2", search |-> ""] }

\* The optional tryInstantView argument: a boolean, or not given.
TryInstantViewArgs ==
    { [given |-> FALSE, value |-> FALSE], [given |-> TRUE, value |-> FALSE],
      [given |-> TRUE, value |-> TRUE] }

NoCall == [op |-> "none"]
NoParams == "undefined"

(***************************************************************************)
(* Collaborators of WebApp.                                                *)
(***************************************************************************)
\* compareVersions(a, b): 1, 0 or -1 as a is greater than, equal to or less than b;
\* lexicographic over the components, missing trailing components count as zero.
RECURSIVE compareFrom(_, _, _)
compareFrom(a, b, i) ==
    IF i > Len(a) /\ i > Len(b) THEN 0
    ELSE LET x == IF i <= Len(a) THEN a[i] ELSE 0
             y == IF i <= Len(b) THEN b[i] ELSE 0
         IN  IF x > y THEN 1 ELSE IF x < y THEN -1 ELSE compareFrom(a, b, i + 1)

compareVersions(a, b) == compareFrom(a, b, 1)

\* The compatibility table of the bridge: the version an event appeared in.
\* The events that are not listed are there since the first version, 6.0.
MinVersion(event) ==
    CASE event \in {"web_app_open_tg_link", "web_app_open_invoice",
                    "web_app_set_header_color", "web_app_set_background_color"} -> <<6, 1>>
      [] event = "web_app_read_text_from_clipboard" -> <<6, 4>>
      [] event \in {"web_app_request_phone", "web_app_request_write_access"} -> <<6, 9>>
      [] OTHER -> <<6, 0>>

\* supports(event, version) of the bridge.
supports(event, v) == compareVersions(MinVersion(event), v) <= 0

\* formatURL(url): the full form of the URL; a relative URL is resolved against
\* the page's own location.
formatURL(url) ==
    IF url.abs THEN url ELSE [url EXCEPT !.abs = TRUE, !.hostname = AppHost]

\* new URL(text): the parts WebApp reads.
NewURL(url) ==
    [hostname |-> url.hostname,
     pathname |-> [prefix |-> url.prefix, slug |-> url.slug],
     search   |-> url.search]

\* isRGB(value) of the colors package.
isRGB(value) == value \in RGBColors

\* new Blob([data]).size: the length of data in UTF-8 bytes.
BlobSize(data) == data.chars * data.bytes

\* A postEvent call as the bridge receives it.
Posted(event, params) == [event |-> event, params |-> params]

\* Outcomes of a call, as its caller sees them.
Returned == [kind |-> "return", error |-> "none"]
Threw(error) == [kind |-> "throw", error |-> error]
Rejected(error) == [kind |-> "rejected", error |-> error]
Pending == [kind |-> "pending", error |-> "none"]

\* postEvent throws where the host gives no bridge.
AfterPost(ok) == IF ok THEN Returned ELSE Threw("BridgeUnsupported")

\* The record of one operation: its input and outcome, the postEvent calls and
\* the browser navigations it made, the number of listeners it left on the bridge
\* events, the change listeners it notified and the calls it settled; again
\* marks a delivery of the event that had just settled a call.
Did(op, input, outcome, posted, nav, registered, notified, settled) ==
    [op |-> op, input |-> input, outcome |-> outcome, posted |-> posted, nav |-> nav,
     registered |-> registered, notified |-> notified, settled |-> settled,
     again |-> FALSE]

(***************************************************************************)
(* WebApp: synchronous methods.  Each operator gives what one call does:   *)
(* the postEvent calls it makes, the browser navigations, the outcome.     *)
(***************************************************************************)
\* sendData comparing the length of the string, not its size in bytes.
sendDataByLength(data, ok) ==
    LET size == data.chars IN
    IF size = 0 \/ size > MaxDataSize
    THEN [outcome |-> Threw("IncorrectSize"), posted |-> <<>>, nav |-> <<>>]
    ELSE [outcome |-> AfterPost(ok),
          posted |-> <<Posted("web_app_data_send", [data |-> data])>>, nav |-> <<>>]

sendData(data, ok) ==
    LET size == BlobSize(data) IN
    IF size = 0 \/ size > MaxDataSize
    THEN [outcome |-> Threw("IncorrectSize"), posted |-> <<>>, nav |-> <<>>]
    ELSE [outcome |-> AfterPost(ok),
          posted |-> <<Posted("web_app_data_send", [data |-> data])>>, nav |-> <<>>]

openLink(url, tryInstantView, v, ok) ==
    LET formattedUrl == formatURL(url) IN
    IF ~supports("web_app_open_link", v)
    THEN [outcome |-> Returned, posted |-> <<>>,
          nav |-> <<[api |-> "window.open", url |-> formattedUrl]>>]
    ELSE [outcome |-> AfterPost(ok),
          posted |-> <<Posted("web_app_open_link",
                        IF tryInstantView.given
                        THEN [url |-> formattedUrl, try_instant_view |-> tryInstantView.value]
                        ELSE [url |-> formattedUrl])>>,
          nav |-> <<>>]

\* openTelegramLink without the legacy path.
openTelegramLinkAlwaysPosts(url, v, ok) ==
    LET parsed == NewURL(formatURL(url)) IN
    IF parsed.hostname # "t.me"
    THEN [outcome |-> Threw("NotAllowedHostname"), posted |-> <<>>, nav |-> <<>>]
    ELSE [outcome |-> AfterPost(ok),
          posted |-> <<Posted("web_app_open_tg_link",
                        [path_full |-> <<parsed.pathname, parsed.search>>])>>,
          nav |-> <<>>]

openTelegramLink(url, v, ok) ==
    LET parsed == NewURL(formatURL(url)) IN
    IF parsed.hostname # "t.me"
    THEN [outcome |-> Threw("NotAllowedHostname"), posted |-> <<>>, nav |-> <<>>]
    ELSE IF ~supports("web_app_open_tg_link", v)
    THEN [outcome |-> Returned, posted |-> <<>>,
          nav |-> <<[api |-> "location.href", url |-> url]>>]
    ELSE [outcome |-> AfterPost(ok),
          posted |-> <<Posted("web_app_open_tg_link",
                        [path_full |-> <<parsed.pathname, parsed.search>>])>>,
          nav |-> <<>>]

\* State.set(key, value): applies the value, then emits the change event to the
\* listeners, which see the bridge calls made so far and read the getter.
StateSet(st, key, value, postedSoFar) ==
    LET new == [st EXCEPT ![key] = value] IN
    [state |-> new,
     notified |-> <<[event |-> "change", key |-> key, value |-> value,
                     postedBefore |-> postedSoFar, getter |-> new[key]]>>]

\* setHeaderColor updating the state before it posts the event.
setHeaderColorStateFirst(color, st, ok) ==
    LET set == StateSet(st, "headerColor", color, <<>>)
        posted == <<Posted("web_app_set_header_color",
                           IF isRGB(color) THEN [color |-> color] ELSE [color_key |-> color])>>
    IN  [outcome |-> AfterPost(ok), posted |-> posted,
         state |-> set.state, notified |-> set.notified]

setHeaderColor(color, st, ok) ==
    LET posted == <<Posted("web_app_set_header_color",
                           IF isRGB(color) THEN [color |-> color] ELSE [color_key |-> color])>>
    IN  IF ~ok
        THEN [outcome |-> Threw("BridgeUnsupported"), posted |-> posted,
              state |-> st, notified |-> <<>>]
        ELSE LET set == StateSet(st, "headerColor", color, posted) IN
             [outcome |-> Returned, posted |-> posted,
              state |-> set.state, notified |-> set.notified]

\* setBackgroundColor updating the state before it posts the event.
setBackgroundColorStateFirst(color, st, ok) ==
    LET set == StateSet(st, "backgroundColor", color, <<>>)
        posted == <<Posted("web_app_set_background_color", [color |-> color])>>
    IN  [outcome |-> AfterPost(ok), posted |-> posted,
         state |-> set.state, notified |-> set.notified]

setBackgroundColor(color, st, ok) ==
    LET posted == <<Posted("web_app_set_background_color", [color |-> color])>>
    IN  IF ~ok
        THEN [outcome |-> Threw("BridgeUnsupported"), posted |-> posted,
              state |-> st, notified |-> <<>>]
        ELSE LET set == StateSet(st, "backgroundColor", color, posted) IN
             [outcome |-> Returned, posted |-> posted,
              state |-> set.state, notified |-> set.notified]

\* The versions an application may pass to isVersionAtLeast, as tuples of their
\* components.
PassedVersions ==
    {<<5>>, <<6>>, <<6, 0>>, <<6, 0, 1>>, <<6, 1>>, <<6, 9>>, <<6, 10>>, <<7>>}

\* A method returned value.
ReturnedValue(value) == [kind |-> "return", error |-> "none", value |-> value]

\* isVersionAtLeast that compares the current version with the passed one.
isVersionAtLeastOfCurrent(v, current) == compareVersions(current, v) >= 0

\* WebApp.isVersionAtLeast(version), in a Mini App of version current.
isVersionAtLeast(v, current) == compareVersions(v, current) >= 0

IsVersionAtLeast ==
    \E v \in PassedVersions :
        /\ last' = Did("isVersionAtLeast", v,
                       ReturnedValue(isVersionAtLeast(v, version)),
                       <<>>, <<>>, 0, <<>>, <<>>)
        /\ UNCHANGED <<webAppVars, pageVars, emitterVars>>

SendData ==
    \E data \in DataSamples, ok \in BOOLEAN :
        LET r == sendData(data, ok) IN
        /\ last' = Did("sendData", data, r.outcome, r.posted, r.nav, 0, <<>>, <<>>)
        /\ UNCHANGED <<version, state, calls, listeners, pageVars, emitterVars>>

OpenLink ==
    \E url \in Urls, tiv \in TryInstantViewArgs, ok \in BOOLEAN :
        LET r == openLink(url, tiv, version, ok) IN
        /\ last' = Did("openLink", url, r.outcome, r.posted, r.nav, 0, <<>>, <<>>)
        /\ UNCHANGED <<version, state, calls, listeners, pageVars, emitterVars>>

OpenTelegramLink ==
    \E url \in Urls, ok \in BOOLEAN :
        LET r == openTelegramLink(url, version, ok) IN
        /\ last' = Did("openTelegramLink", url, r.outcome, r.posted, r.nav, 0, <<>>, <<>>)
        /\ UNCHANGED <<version, state, calls, listeners, pageVars, emitterVars>>

SetHeaderColor ==
    \E color \in HeaderColors, ok \in BOOLEAN :
        LET r == setHeaderColor(color, state, ok) IN
        /\ state' = r.state
        /\ last' = Did("setHeaderColor", color, r.outcome, r.posted, <<>>, 0, r.notified, <<>>)
        /\ UNCHANGED <<version, calls, listeners, pageVars, emitterVars>>

SetBackgroundColor ==
    \E color \in BackgroundColors, ok \in BOOLEAN :
        LET r == setBackgroundColor(color, state, ok) IN
        /\ state' = r.state
        /\ last' = Did("setBackgroundColor", color, r.outcome, r.posted, <<>>, 0, r.notified, <<>>)
        /\ UNCHANGED <<version, calls, listeners, pageVars, emitterVars>>

(***************************************************************************)
(* request() of the bridge, and the WebApp methods built on it.            *)
(***************************************************************************)
\* A pending request() call: the response event it listens to, how it captures
\* a response, and whether a timeout was asked for.
Call(op, event, capture, slug, reqId, timeout) ==
    [op |-> op, event |-> event, capture |-> capture, slug |-> slug, reqId |-> reqId,
     timeout |-> timeout]

\* request(method, params, event, options): posts the request event and leaves a
\* listener on the response event; if postEvent throws, the call fails at once and
\* no listener stays.
request(method, params, call, ok) ==
    IF ok
    THEN [outcome |-> Pending, posted |-> <<Posted(method, params)>>, call |-> call]
    ELSE [outcome |-> Rejected("BridgeUnsupported"), posted |-> <<Posted(method, params)>>,
          call |-> NoCall]

\* pathname.match(/^\/(\$|invoice\/)([A-Za-z0-9\-_=]+)$/): the slug, or "null".
SlugTexts == {"s1", "s2", "s3"}
InvoicePathMatch(pathname) ==
    IF pathname.prefix \in {"$", "invoice/"} /\ pathname.slug \in SlugTexts
    THEN pathname.slug
    ELSE "null"

\* A capture that takes any invoice_closed event.
openInvoiceCaptureAny(slug, payload) == TRUE

\* A capture that takes the events of the other invoices.
openInvoiceCaptureOther(slug, payload) == slug # payload.slug

\* The capture option openInvoice passes to request().
openInvoiceCapture(slug, payload) == slug = payload.slug

\* openInvoice without the check of the host name.
openInvoiceAnyHost(url, ok) ==
    LET parsed == NewURL(formatURL(url))
        slug == InvoicePathMatch(parsed.pathname)
    IN  IF slug = "null"
        THEN [outcome |-> Rejected("IncorrectPathname"), posted |-> <<>>, call |-> NoCall]
        ELSE request("web_app_open_invoice", [slug |-> slug],
                     Call("openInvoice", "invoice_closed", "option", slug, 0, FALSE), ok)

openInvoice(url, ok) ==
    LET parsed == NewURL(formatURL(url))
        slug == InvoicePathMatch(parsed.pathname)
    IN  IF parsed.hostname # "t.me"
        THEN [outcome |-> Rejected("IncorrectHostname"), posted |-> <<>>, call |-> NoCall]
        ELSE IF slug = "null"
        THEN [outcome |-> Rejected("IncorrectPathname"), posted |-> <<>>, call |-> NoCall]
        ELSE request("web_app_open_invoice", [slug |-> slug],
                     Call("openInvoice", "invoice_closed", "option", slug, 0, FALSE), ok)

readTextFromClipboard(reqId, ok) ==
    request("web_app_read_text_from_clipboard", [req_id |-> reqId],
            Call("readTextFromClipboard", "clipboard_text_received", "default", "none",
                 reqId, FALSE), ok)

requestPhoneAccess(ok) ==
    request("web_app_request_phone", NoParams,
            Call("requestPhoneAccess", "phone_requested", "default", "none", 0, FALSE), ok)

requestWriteAccess(ok) ==
    request("web_app_request_write_access", NoParams,
            Call("requestWriteAccess", "write_access_requested", "default", "none", 0,
                 FALSE), ok)

\* request() called by the application itself, with the timeout option.
requestWithTimeout(ok) ==
    request("web_app_request_phone", NoParams,
            Call("request", "phone_requested", "default", "none", 0, TRUE), ok)

\* The capture request() uses when the caller passes none: by request id if the
\* request carries one, any event of the expected name otherwise.
defaultCapture(call, payload) ==
    IF call.reqId # 0 THEN payload.req_id = call.reqId ELSE TRUE

Captures(call, payload) ==
    IF call.capture = "option"
    THEN openInvoiceCapture(call.slug, payload)
    ELSE defaultCapture(call, payload)

\* What the method returns once request() resolved with payload.
methodResult(call, payload) ==
    CASE call.op = "openInvoice" -> payload.status
      [] call.op = "readTextFromClipboard" ->
            IF payload.data = "undefined" THEN "null" ELSE payload.data
      [] call.op \in {"requestPhoneAccess", "requestWriteAccess"} -> payload.status
      [] OTHER -> payload

\* The events the host may send.
BridgeEvents ==
    { [event |-> "invoice_closed", payload |-> [slug |-> s, status |-> st]] :
          s \in SlugTexts, st \in {"paid", "failed"} }
    \cup { [event |-> "clipboard_text_received", payload |-> [req_id |-> r, data |-> d]] :
          r \in 1..MaxCalls + 1, d \in {"hello", "undefined"} }
    \cup { [event |-> "phone_requested", payload |-> [status |-> st]] :
          st \in {"sent", "cancelled"} }
    \cup { [event |-> "write_access_requested", payload |-> [status |-> st]] :
          st \in {"allowed", "cancelled"} }

\* An event of the bridge reaches the listeners of the pending calls: each one
\* that captures it unsubscribes and resolves its call.
emit(e, cs, ls) ==
    LET hit == { c \in ls : /\ cs[c] # NoCall
                            /\ cs[c].event = e.event
                            /\ Captures(cs[c], e.payload) }
    IN  [calls |-> [c \in DOMAIN cs |-> IF c \in hit THEN NoCall ELSE cs[c]],
         listeners |-> ls \ hit,
         settled |-> [c \in hit |-> [call |-> cs[c], how |-> "resolved", error |-> "none",
                                     payload |-> e.payload,
                                     result |-> methodResult(cs[c], e.payload)]]]

\* The timeout of a call elapsed: it unsubscribes and fails.
expire(c, cs, ls) ==
    [calls |-> [cs EXCEPT ![c] = NoCall],
     listeners |-> ls \ {c},
     settled |-> (c :> [call |-> cs[c], how |-> "rejected", error |-> "Timeout",
                        payload |-> "none", result |-> "none"])]

FreeSlots == { c \in DOMAIN calls : calls[c] = NoCall /\ c \notin listeners }
FreeSlot == CHOOSE c \in FreeSlots : \A d \in FreeSlots : c <= d

\* A call that leaves a listener needs a free slot.
HasRoom(r) == r.call = NoCall \/ FreeSlots # {}

\* A request-style method was called and did r.
Requested(op, input, r) ==
    /\ IF r.call = NoCall
       THEN UNCHANGED <<calls, listeners>>
       ELSE /\ calls' = [calls EXCEPT ![FreeSlot] = r.call]
            /\ listeners' = listeners \cup {FreeSlot}
    /\ last' = Did(op, input, r.outcome, r.posted, <<>>,
                   Cardinality(listeners') - Cardinality(listeners), <<>>, <<>>)
    /\ UNCHANGED <<version, state, pageVars, emitterVars>>

OpenInvoice ==
    \E url \in Urls, ok \in BOOLEAN :
        LET r == openInvoice(url, ok) IN
        /\ HasRoom(r)
        /\ Requested("openInvoice", url, r)

\* createRequestId() gives an id no pending call uses.
ReadTextFromClipboard ==
    \E ok \in BOOLEAN :
        /\ FreeSlots # {}
        /\ Requested("readTextFromClipboard", FreeSlot, readTextFromClipboard(FreeSlot, ok))

RequestPhoneAccess ==
    \E ok \in BOOLEAN :
        LET r == requestPhoneAccess(ok) IN
        /\ HasRoom(r)
        /\ Requested("requestPhoneAccess", "none", r)

RequestWriteAccess ==
    \E ok \in BOOLEAN :
        LET r == requestWriteAccess(ok) IN
        /\ HasRoom(r)
        /\ Requested("requestWriteAccess", "none", r)

RequestWithTimeout ==
    \E ok \in BOOLEAN :
        LET r == requestWithTimeout(ok) IN
        /\ HasRoom(r)
        /\ Requested("request", "none", r)

Deliver ==
    \E e \in BridgeEvents :
        LET r == emit(e, calls, listeners) IN
        /\ calls' = r.calls
        /\ listeners' = r.listeners
        /\ last' = [Did("deliver", e, Returned, <<>>, <<>>, 0, <<>>, r.settled)
                        EXCEPT !.again = /\ last.op = "deliver"
                                         /\ last.input = e
                                         /\ DOMAIN last.settled # {}]
        /\ UNCHANGED <<version, state, pageVars, emitterVars>>

Timeout ==
    \E c \in listeners :
        /\ calls[c] # NoCall
        /\ calls[c].timeout
        /\ LET r == expire(c, calls, listeners) IN
           /\ calls' = r.calls
           /\ listeners' = r.listeners
           /\ last' = Did("timeout", c, Returned, <<>>, <<>>, 0, <<>>, r.settled)
        /\ UNCHANGED <<version, state, pageVars, emitterVars>>

(***************************************************************************)
(* The navigator and its snapshot in session storage.                      *)
(***************************************************************************)
Paths == {"/a", "/b"}
EntryStates == {"undefined", "st"}

\* The entries of a history: a path and the state the application attached.
Entries == [pathname : Paths, state : EntryStates]

Histories == UNION { [1..n -> Entries] : n \in 1..MaxHistory }

\* The entries an application may push: the state is of any type, and a Date
\* is a value JSON has no form for.
PushedEntries == [pathname : Paths, state : EntryStates \cup {"Date"}]

\* No navigator was created on this page yet.
NoNavigator == [index |-> -1, history |-> <<>>]

\* Texts of session storage: getItem gives null for a missing key.
Missing == [kind |-> "missing"]
EmptyText == [kind |-> "empty"]
GarbageText == [kind |-> "garbage"]
\* The JSON text null: it parses, and has no index and no history to take.
NullText == [kind |-> "null"]

\* JSON.stringify of an entry: a property whose value is undefined is left out,
\* and a Date is written as the string its toJSON gives.
EntryToJSON(entry) ==
    IF entry.state = "undefined"
    THEN [pathname |-> entry.pathname]
    ELSE IF entry.state = "Date"
    THEN [pathname |-> entry.pathname, state |-> "text of Date"]
    ELSE [pathname |-> entry.pathname, state |-> entry.state]

\* JSON.stringify({ index, history }).
JSONstringify(index, history) ==
    [kind |-> "json",
     value |-> [index |-> index,
                history |-> [k \in 1..Len(history) |-> EntryToJSON(history[k])]]]

\* An entry read from parsed JSON: a property that is not there reads undefined.
EntryFromJSON(json) ==
    [pathname |-> json.pathname,
     state |-> IF "state" \in DOMAIN json THEN json.state ELSE "undefined"]

\* JSON.parse(text) and the destructuring of index and history: throws on a text
\* that is not JSON, and on null, which cannot be destructured.
JSONparse(text) ==
    IF text.kind = "json"
    THEN [threw |-> FALSE, index |-> text.value.index,
          history |-> [k \in 1..Len(text.value.history) |->
                          EntryFromJSON(text.value.history[k])]]
    ELSE [threw |-> TRUE, index |-> -1, history |-> <<>>]

\* new BrowserNavigator(history, index, options): takes both as they are given.
BrowserNavigator(history, index) == [index |-> index, history |-> history]

\* createBrowserNavigatorFromLocation(options): one entry, the current location.
createBrowserNavigatorFromLocation(loc) ==
    BrowserNavigator(<<[pathname |-> loc, state |-> "undefined"]>>, 0)

\* instantiate that restores the history but not the index.
instantiateAtStart(isPageReload, stateRaw, loc) ==
    IF isPageReload /\ stateRaw.kind \notin {"missing", "empty"}
    THEN LET parsed == JSONparse(stateRaw) IN
         IF ~parsed.threw
         THEN BrowserNavigator(parsed.history, 0)
         ELSE createBrowserNavigatorFromLocation(loc)
    ELSE createBrowserNavigatorFromLocation(loc)

\* instantiate that restores the stored state on every load of the page.
instantiateOnEveryLoad(isPageReload, stateRaw, loc) ==
    IF stateRaw.kind \notin {"missing", "empty"}
    THEN LET parsed == JSONparse(stateRaw) IN
         IF ~parsed.threw
         THEN BrowserNavigator(parsed.history, parsed.index)
         ELSE createBrowserNavigatorFromLocation(loc)
    ELSE createBrowserNavigatorFromLocation(loc)

\* instantiate(sessionStorageKey, options).
instantiate(isPageReload, stateRaw, loc) ==
    IF isPageReload /\ stateRaw.kind \notin {"missing", "empty"}
    THEN LET parsed == JSONparse(stateRaw) IN
         IF ~parsed.threw
         THEN BrowserNavigator(parsed.history, parsed.index)
         ELSE createBrowserNavigatorFromLocation(loc)
    ELSE createBrowserNavigatorFromLocation(loc)

\* saveState that stores the history and not where the navigator is in it.
saveStateOfHistory(nav) == JSONstringify(0, nav.history)

\* saveState of initNavigator: what sessionStorage.setItem stores.
saveState(nav) == JSONstringify(nav.index, nav.history)

\* initNavigator that registers the listener and does not save at once.
initNavigatorSavesOnChangeOnly(isPageReload, stateRaw, loc) ==
    [navigator |-> instantiate(isPageReload, stateRaw, loc), storage |-> stateRaw]

\* initNavigator(sessionStorageKey, options).
initNavigator(isPageReload, stateRaw, loc) ==
    LET nav == instantiate(isPageReload, stateRaw, loc) IN
    [navigator |-> nav, storage |-> saveState(nav)]

\* The index of the navigator points into its history.
InHistory(nav) == nav.index \in 0..Len(nav.history) - 1

\* The operations of the navigator, on a navigator whose index is in its history.
push(nav, entry) ==
    [index |-> nav.index + 1,
     history |-> Append(SubSeq(nav.history, 1, nav.index + 1), entry)]

replace(nav, entry) ==
    [nav EXCEPT !.history[nav.index + 1] = entry]

back(nav) == [nav EXCEPT !.index = nav.index - 1]

forward(nav) == [nav EXCEPT !.index = nav.index + 1]

InitNavigator ==
    /\ navigator = NoNavigator
    /\ LET r == initNavigator(reload, storage, location) IN
       /\ navigator' = r.navigator
       /\ storage' = r.storage
       /\ last' = Did("initNavigator",
                      [reload |-> reload, stored |-> storage,
                       left |-> IF last.op = "load" THEN last.input.left
                                ELSE NoNavigator],
                      Returned, <<>>, <<>>, 1, <<>>, <<>>)
    /\ UNCHANGED <<webAppVars, emitterVars, reload, location>>

\* The navigator changed to nav: it emits the change event, and the listener of
\* initNavigator saves the state.
Changed(op, input, nav) ==
    /\ navigator' = nav
    /\ storage' = saveState(nav)
    /\ last' = Did(op, input, Returned, <<>>, <<>>, 0, <<"change">>, <<>>)
    /\ UNCHANGED <<webAppVars, emitterVars, reload, location>>

\* The navigator was at a boundary: nothing changes and no event is emitted.
NotMoved(op) ==
    /\ last' = Did(op, "none", Returned, <<>>, <<>>, 0, <<>>, <<>>)
    /\ UNCHANGED <<webAppVars, pageVars, emitterVars>>

Push ==
    /\ navigator # NoNavigator
    /\ InHistory(navigator)
    /\ navigator.index + 2 <= MaxHistory
    /\ \E entry \in PushedEntries : Changed("push", entry, push(navigator, entry))

Replace ==
    /\ navigator # NoNavigator
    /\ InHistory(navigator)
    /\ \E entry \in PushedEntries :
        Changed("replace", entry, replace(navigator, entry))

Back ==
    /\ navigator # NoNavigator
    /\ InHistory(navigator)
    /\ IF navigator.index > 0
       THEN Changed("back", "none", back(navigator))
       ELSE NotMoved("back")

Forward ==
    /\ navigator # NoNavigator
    /\ InHistory(navigator)
    /\ IF navigator.index + 1 < Len(navigator.history)
       THEN Changed("forward", "none", forward(navigator))
       ELSE NotMoved("forward")

\* The page is loaded again, by a reload or by a fresh navigation to it: session
\* storage stays, the navigator object is gone; the record keeps the navigator
\* the page had when it was left.
Load ==
    /\ navigator # NoNavigator
    /\ \E isReload \in BOOLEAN, loc \in Paths :
        /\ reload' = isReload
        /\ location' = loc
        /\ navigator' = NoNavigator
        /\ last' = Did("load", [reload |-> isReload, left |-> navigator],
                       Returned, <<>>, <<>>, 0, <<>>, <<>>)
        /\ UNCHANGED <<webAppVars, emitterVars, storage>>

\* The texts a previous page may have left in session storage: the key is under
\* the control of any script of the origin, so a snapshot may hold any index.
StoredTexts ==
    {Missing, EmptyText, GarbageText, NullText}
    \cup { JSONstringify(i, h) : <<i, h>> \in (0..MaxHistory) \X Histories }

(***************************************************************************)
(* The Mini Apps event emitter singleton.                                  *)
(***************************************************************************)
\* Number of emitter instances the singleton may create.
MaxInstances == 2

\* Number of listeners the emitters may hold, all instances together.
MaxListeners == 2

\* The events of the host and the listener functions of the application.
EmitterEvents == {"theme_changed", "viewport_changed"}
ListenerFns == {"f", "g"}
Subscriptions == [event : EmitterEvents, listener : ListenerFns]

\* No emit call is in progress.
NoEmit == [instance |-> 0, event |-> "none", queue |-> <<>>]

\* createMiniAppsEventEmitter(): an emitter without listeners; cleanups counts
\* the invocations of the cleanup function returned with it.
createMiniAppsEventEmitter == [listeners |-> <<>>, cleanups |-> 0]

\* emitter.count: the number of live listeners.
count(emitter) == Len(emitter.listeners)

\* emitter.on(event, listener).
on(emitter, event, listener) ==
    [emitter EXCEPT !.listeners = Append(@, [event |-> event, listener |-> listener])]

\* The places of the emitter where listener is registered for event.
RegisteredAt(emitter, event, listener) ==
    { k \in DOMAIN emitter.listeners :
        emitter.listeners[k] = [event |-> event, listener |-> listener] }

\* off as the emitter defines it, bound in line 11: removes the first
\* registration of listener for event, and does nothing when there is none.
off(emitter, event, listener) ==
    LET at == RegisteredAt(emitter, event, listener) IN
    IF at = {} THEN emitter
    ELSE LET k == CHOOSE j \in at : \A m \in at : j <= m IN
         [emitter EXCEPT !.listeners =
             SubSeq(@, 1, k - 1) \o SubSeq(@, k + 1, Len(@))]

\* reset of createSingleton, with the onReset of line 24: the cleanup of the
\* cached instance is invoked and the instance is forgotten.
reset(s) ==
    IF s.cached = 0 THEN s
    ELSE [cached |-> 0,
          emitters |-> [s.emitters EXCEPT ![s.cached].cleanups = @ + 1]]

\* get of createSingleton: creates the instance when none is cached.
get(s) ==
    IF s.cached # 0 THEN s
    ELSE [cached |-> Len(s.emitters) + 1,
          emitters |-> Append(s.emitters, createMiniAppsEventEmitter)]

\* emitter.off that invokes the cleanup of its instance itself, and leaves the
\* singleton holding the instance.
emitter_offCleansUp(s, i, event, listener) ==
    LET before == count(s.emitters[i])
        removed == [s EXCEPT !.emitters[i] = off(@, event, listener)]
    IN  IF before # 0 /\ count(removed.emitters[i]) = 0
        THEN [removed EXCEPT !.emitters[i].cleanups = @ + 1]
        ELSE removed

\* emitter.off that resets the singleton whenever no listener is left.
emitter_offResetsAtZero(s, i, event, listener) ==
    LET removed == [s EXCEPT !.emitters[i] = off(@, event, listener)] IN
    IF count(removed.emitters[i]) = 0 THEN reset(removed) ELSE removed

\* emitter.off that removes the listener and never resets the singleton.
emitter_offKeepsInstance(s, i, event, listener) ==
    [s EXCEPT !.emitters[i] = off(@, event, listener)]

\* emitter.off as the singleton rewires it, on instance i.
emitter_off(s, i, event, listener) ==
    LET before == count(s.emitters[i])
        removed == [s EXCEPT !.emitters[i] = off(@, event, listener)]
    IN  IF before # 0 /\ count(removed.emitters[i]) = 0
        THEN reset(removed)
        ELSE removed

\* The singleton as the variables hold it.
Singleton == [cached |-> cached, emitters |-> emitters]

\* The number of cleanup invocations so far, over the instances 1..n.
RECURSIVE CleanupsUpTo(_, _)
CleanupsUpTo(ems, n) ==
    IF n = 0 THEN 0 ELSE ems[n].cleanups + CleanupsUpTo(ems, n - 1)

\* The number of listeners registered, over the instances 1..n.
RECURSIVE ListenersUpTo(_, _)
ListenersUpTo(ems, n) ==
    IF n = 0 THEN 0 ELSE count(ems[n]) + ListenersUpTo(ems, n - 1)

\* An operation on the singleton became s; the record keeps what the caller
\* could have read before the call.
EmitterDid(op, i, sub, s) ==
    /\ cached' = s.cached
    /\ emitters' = s.emitters
    /\ last' = Did(op,
                   [instance |-> i, sub |-> sub, cached |-> cached,
                    created |-> Len(emitters),
                    count |-> IF i \in DOMAIN emitters THEN count(emitters[i]) ELSE 0,
                    registered |-> /\ i \in DOMAIN emitters
                                   /\ RegisteredAt(emitters[i], sub.event,
                                                   sub.listener) # {},
                    cleanups |-> CleanupsUpTo(emitters, Len(emitters))],
                   Returned, <<>>, <<>>, 0, <<>>, <<>>)
    /\ UNCHANGED <<webAppVars, pageVars>>

NoSub == [event |-> "none", listener |-> "none"]

\* miniAppsEventEmitter(): the instance of the singleton.
MiniAppsEventEmitter ==
    /\ emitting = NoEmit
    /\ cached # 0 \/ Len(emitters) < MaxInstances
    /\ LET s == get(Singleton) IN
       EmitterDid("miniAppsEventEmitter", s.cached, NoSub, s)
    /\ UNCHANGED emitting

\* on(event, listener) on an instance miniAppsEventEmitter() once returned.
On ==
    /\ emitting = NoEmit
    /\ \E i \in DOMAIN emitters, sub \in Subscriptions :
        /\ ListenersUpTo(emitters, Len(emitters)) < MaxListeners
        /\ EmitterDid("on", i, sub,
               [Singleton EXCEPT !.emitters[i] = on(@, sub.event, sub.listener)])
    /\ UNCHANGED emitting

\* off(event, listener) on an instance miniAppsEventEmitter() once returned.
Off ==
    /\ emitting = NoEmit
    /\ \E i \in DOMAIN emitters, sub \in Subscriptions :
        EmitterDid("off", i, sub, emitter_off(Singleton, i, sub.event, sub.listener))
    /\ UNCHANGED emitting

\* resetMiniAppsEventEmitter().
ResetMiniAppsEventEmitter ==
    /\ emitting = NoEmit
    /\ EmitterDid("resetMiniAppsEventEmitter", cached, NoSub, reset(Singleton))
    /\ UNCHANGED emitting

\* The listeners of event, in the order of their registration.
RECURSIVE ListenersOf(_, _)
ListenersOf(subs, event) ==
    IF subs = <<>> THEN <<>>
    ELSE IF Head(subs).event = event
         THEN <<Head(subs).listener>> \o ListenersOf(Tail(subs), event)
         ELSE ListenersOf(Tail(subs), event)

\* An event of the host reaches the cached instance, whose emit starts to call
\* the listeners registered for it.
Emit ==
    /\ emitting = NoEmit
    /\ cached # 0
    /\ \E event \in EmitterEvents :
        /\ emitting' = [instance |-> cached, event |-> event,
                        queue |-> ListenersOf(emitters[cached].listeners, event)]
        /\ EmitterDid("emit", cached, [event |-> event, listener |-> "none"], Singleton)

\* emit calls the next listener, which either leaves the emitter alone or
\* removes a listener of it, itself or another.
Listener ==
    /\ emitting # NoEmit
    /\ emitting.queue # <<>>
    /\ emitting' = [emitting EXCEPT !.queue = Tail(@)]
    /\ \/ EmitterDid("listener", emitting.instance,
                      [event |-> emitting.event, listener |-> "none"], Singleton)
       \/ \E sub \in Subscriptions :
            /\ RegisteredAt(emitters[emitting.instance], sub.event, sub.listener) # {}
            /\ EmitterDid("listener", emitting.instance, sub,
                   emitter_off(Singleton, emitting.instance, sub.event, sub.listener))

\* emit has called every listener and returns.
EmitReturns ==
    /\ emitting # NoEmit
    /\ emitting.queue = <<>>
    /\ emitting' = NoEmit
    /\ EmitterDid("emitted", emitting.instance,
                  [event |-> emitting.event, listener |-> "none"], Singleton)

\* No instance of the emitter was asked for yet.
InitEmitter ==
    /\ cached = 0
    /\ emitters = <<>>
    /\ emitting = NoEmit

\* WebApp as its constructor leaves it.
InitWebApp ==
    /\ state = [headerColor |-> "bg_color", backgroundColor |-> "#ffffff"]
    /\ calls = [c \in 1..MaxCalls |-> NoCall]
    /\ listeners = {}
    /\ last = Did("new", "none", Returned, <<>>, <<>>, 0, <<>>, <<>>)

\* A first load of the page, before initNavigator.
Init ==
    /\ version \in Versions
    /\ InitWebApp
    /\ storage = Missing
    /\ reload = FALSE
    /\ location = "/a"
    /\ navigator = NoNavigator
    /\ InitEmitter

\* A load of the page, before initNavigator, with what session storage may hold.
NavInit ==
    /\ version = <<6, 10>>
    /\ InitWebApp
    /\ storage \in StoredTexts
    /\ reload \in BOOLEAN
    /\ location \in Paths
    /\ navigator = NoNavigator
    /\ InitEmitter

\* The synchronous methods of WebApp.
Next ==
    \/ SendData
    \/ OpenLink
    \/ OpenTelegramLink
    \/ SetHeaderColor
    \/ SetBackgroundColor
    \/ IsVersionAtLeast

Spec == Init /\ [][Next]_vars

\* The request-style methods of WebApp, the events of the host that answer them
\* and the timeouts; openTelegramLink is here for its check of the host name.
ReqNext ==
    \/ OpenTelegramLink
    \/ OpenInvoice
    \/ ReadTextFromClipboard
    \/ RequestPhoneAccess
    \/ RequestWriteAccess
    \/ RequestWithTimeout
    \/ Deliver
    \/ Timeout

ReqSpec == Init /\ [][ReqNext]_vars

\* A timeout that was asked for does elapse.
FairReqSpec == ReqSpec /\ WF_vars(Timeout)

\* The navigator of a page, over loads and reloads of the page.
NavNext ==
    \/ InitNavigator
    \/ Push
    \/ Replace
    \/ Back
    \/ Forward
    \/ Load

NavSpec == NavInit /\ [][NavNext]_vars

\* The emitter singleton, its callers, the events of the host and the listeners.
EmitterNext ==
    \/ MiniAppsEventEmitter
    \/ On
    \/ Off
    \/ ResetMiniAppsEventEmitter
    \/ Emit
    \/ Listener
    \/ EmitReturns

EmitterInit ==
    /\ version = <<6, 10>>
    /\ InitWebApp
    /\ storage = Missing
    /\ reload = FALSE
    /\ location = "/a"
    /\ navigator = NoNavigator
    /\ InitEmitter

EmitterSpec == EmitterInit /\ [][EmitterNext]_vars

(***************************************************************************)
(* Properties.                                                             *)
(***************************************************************************)
\* The size of a string in UTF-8 bytes.
UTF8Size(data) == data.chars * data.bytes

\* The host name WebApp reads from a URL.
HostOf(url) == NewURL(formatURL(url)).hostname

\* The bridge event behind a method of WebApp.
EventOf(op) ==
    CASE op = "setHeaderColor" -> "web_app_set_header_color"
      [] op = "setBackgroundColor" -> "web_app_set_background_color"
      [] op = "openInvoice" -> "web_app_open_invoice"
      [] op = "readTextFromClipboard" -> "web_app_read_text_from_clipboard"
      [] op = "requestPhoneAccess" -> "web_app_request_phone"
      [] op = "requestWriteAccess" -> "web_app_request_write_access"
      [] op = "openLink" -> "web_app_open_link"
      [] op = "openTelegramLink" -> "web_app_open_tg_link"
      [] OTHER -> "none"

PostedEvents(posted) == { posted[j].event : j \in DOMAIN posted }

RequestMethods ==
    {"openInvoice", "readTextFromClipboard", "requestPhoneAccess", "requestWriteAccess"}

\* C1: sendData with data of 0 bytes or of more than 4096 bytes throws and posts
\* nothing; with data of 1 to 4096 bytes it posts web_app_data_send once, with
\* the data.
SendDataChecksSize ==
    last.op = "sendData" =>
        IF UTF8Size(last.input) = 0 \/ UTF8Size(last.input) > 4096
        THEN /\ last.outcome = Threw("IncorrectSize")
             /\ last.posted = <<>>
        ELSE last.posted = <<Posted("web_app_data_send", [data |-> last.input])>>

\* A string of at most 4096 characters and more than 4096 bytes was refused.
SendDataRefusedLongBytes ==
    /\ last.op = "sendData"
    /\ last.input.chars <= 4096
    /\ UTF8Size(last.input) > 4096
    /\ last.outcome.kind = "throw"

\* C2: a delivery settles an openInvoice call only with an invoice_closed event
\* of the call's own slug, the call gives that event's status, and no openInvoice
\* call of the event's slug stays pending after it.
InvoiceResolvedByOwnSlug ==
    last.op = "deliver" =>
        /\ \A c \in DOMAIN last.settled :
              last.settled[c].call.op = "openInvoice" =>
                  /\ last.input.event = "invoice_closed"
                  /\ last.input.payload.slug = last.settled[c].call.slug
                  /\ last.settled[c].how = "resolved"
                  /\ last.settled[c].result = last.input.payload.status
        /\ last.input.event = "invoice_closed" =>
              \A c \in DOMAIN calls :
                  calls[c].op = "openInvoice" => calls[c].slug # last.input.payload.slug

\* Of two pending openInvoice calls, the one issued second was settled by its
\* event and the first is still pending.
InvoiceSecondSettledFirstPending ==
    /\ last.op = "deliver"
    /\ DOMAIN last.settled = {2}
    /\ last.settled[2].call.op = "openInvoice"
    /\ calls[1].op = "openInvoice"
    /\ calls[1].slug # last.settled[2].call.slug
    /\ 1 \in listeners

\* C3: one delivered event never settles two pending calls of requestPhoneAccess,
\* requestWriteAccess or readTextFromClipboard.
NoCrossResolution ==
    last.op = "deliver" =>
        Cardinality({ c \in DOMAIN last.settled :
                        last.settled[c].call.op \in
                            {"requestPhoneAccess", "requestWriteAccess",
                             "readTextFromClipboard"} }) <= 1

\* A request-style method of WebApp is pending in slot c.
PendingMethod(c) == calls[c].op \in RequestMethods

\* C4: no call of a request-style method of WebApp stays pending forever: it is
\* answered, or it fails with Timeout.
EveryRequestSettles ==
    \A c \in 1..MaxCalls : PendingMethod(c) ~> ~PendingMethod(c)

\* C5: an invoice_closed event of the slug of a pending openInvoice call settles
\* the call with the event's status and removes its listener, and a delivery only
\* settles calls that were pending before it: a later event of the same slug
\* settles nothing.
SettledOnce ==
    [][ /\ \A c \in DOMAIN calls :
              ( /\ calls[c].op = "openInvoice"
                /\ last'.op = "deliver"
                /\ last'.input.event = "invoice_closed"
                /\ last'.input.payload.slug = calls[c].slug )
              => /\ c \in DOMAIN last'.settled
                 /\ last'.settled[c].result = last'.input.payload.status
                 /\ calls'[c] = NoCall
                 /\ c \notin listeners'
        /\ last'.op = "deliver" =>
              \A c \in DOMAIN last'.settled :
                  /\ calls[c] # NoCall
                  /\ c \in listeners
                  /\ calls'[c] = NoCall
                  /\ c \notin listeners'
        /\ \A c \in DOMAIN calls : calls'[c] = NoCall => c \notin listeners'
        /\ (last'.op = "deliver" /\ last'.again /\ last'.input.event = "invoice_closed")
              => DOMAIN last'.settled = {}
      ]_vars

\* An invoice_closed event settled nothing, right after the same event had
\* settled a call.
InvoiceLaterEventIgnored ==
    /\ last.op = "deliver"
    /\ last.again
    /\ last.input.event = "invoice_closed"
    /\ DOMAIN last.settled = {}
    /\ listeners = {}

\* C6 as claimed: openTelegramLink and openInvoice with a URL whose host is not
\* t.me both throw to the caller, post nothing, register no listener and do not
\* navigate.
DisallowedHostThrows ==
    (last.op \in {"openTelegramLink", "openInvoice"} /\ HostOf(last.input) # "t.me") =>
        /\ last.outcome.kind = "throw"
        /\ last.posted = <<>>
        /\ last.registered = 0
        /\ last.nav = <<>>

\* C6, amended: with a URL whose host is not t.me, openTelegramLink throws and
\* openInvoice, an async method, returns a rejected promise; both post nothing,
\* register no listener and do not navigate.
DisallowedHostFails ==
    (last.op \in {"openTelegramLink", "openInvoice"} /\ HostOf(last.input) # "t.me") =>
        /\ last.outcome = IF last.op = "openTelegramLink"
                          THEN Threw("NotAllowedHostname")
                          ELSE Rejected("IncorrectHostname")
        /\ last.posted = <<>>
        /\ last.registered = 0
        /\ last.nav = <<>>

\* openInvoice refused a URL of another host that has the path of an invoice.
InvoiceOfOtherHostRefused ==
    /\ last.op = "openInvoice"
    /\ HostOf(last.input) # "t.me"
    /\ InvoicePathMatch(NewURL(formatURL(last.input)).pathname) # "null"
    /\ last.outcome.kind = "rejected"

\* The events the bridge took in the last call: a postEvent call that throws
\* posts nothing.
TakenByBridge ==
    IF last.outcome.error = "BridgeUnsupported" THEN {} ELSE PostedEvents(last.posted)

\* C7: a method whose event the host's version does not support does not post
\* that event.
UnsupportedEventNotPosted ==
    ( /\ last.op \in {"setHeaderColor", "setBackgroundColor"} \cup RequestMethods
      /\ ~supports(EventOf(last.op), version) )
    => EventOf(last.op) \notin TakenByBridge

\* C8: openLink and openTelegramLink with a t.me URL do one of two things: where
\* the event is supported they post it once and do not navigate, elsewhere they
\* navigate once and post nothing; they never fail for the missing capability.
LinkPostedOrNavigated ==
    ( /\ last.op \in {"openLink", "openTelegramLink"}
      /\ last.op = "openTelegramLink" => HostOf(last.input) = "t.me" )
    => IF supports(EventOf(last.op), version)
       THEN /\ Len(last.posted) = 1
            /\ last.posted[1].event = EventOf(last.op)
            /\ last.nav = <<>>
            /\ last.outcome \in {Returned, Threw("BridgeUnsupported")}
       ELSE /\ last.posted = <<>>
            /\ Len(last.nav) = 1
            /\ last.outcome = Returned

\* openTelegramLink took the legacy path.
TelegramLinkNavigated ==
    /\ last.op = "openTelegramLink"
    /\ ~supports("web_app_open_tg_link", version)
    /\ Len(last.nav) = 1
    /\ last.nav[1].api = "location.href"

\* C9: when a mutator notifies a change listener, the event of the mutator was
\* posted before and the getter gives the new value; a mutator that returns has
\* notified once.
MutatorOrder ==
    last.op \in {"setHeaderColor", "setBackgroundColor"} =>
        LET key == IF last.op = "setHeaderColor" THEN "headerColor" ELSE "backgroundColor" IN
        /\ \A k \in DOMAIN last.notified :
              /\ EventOf(last.op) \in PostedEvents(last.notified[k].postedBefore)
              /\ last.notified[k].key = key
              /\ last.notified[k].value = last.input
              /\ last.notified[k].getter = last.input
              /\ state[key] = last.input
        /\ last.outcome = Returned => Len(last.notified) = 1

\* setHeaderColor changed the header color and notified.
HeaderColorChangedAndNotified ==
    /\ last.op = "setHeaderColor"
    /\ last.input = "#aabbcc"
    /\ Len(last.notified) = 1
    /\ state.headerColor = "#aabbcc"

\* C10: initNavigator on a reloaded page whose storage holds the snapshot of an
\* index and a history returns a navigator with that index and that history.
RestoredExactly ==
    (last.op = "initNavigator" /\ last.input.reload) =>
        \A h \in Histories : \A i \in 0..Len(h) - 1 :
            last.input.stored = JSONstringify(i, h) =>
                /\ navigator.index = i
                /\ navigator.history = h

\* A snapshot at index 1 was restored on a page whose location is another path
\* than the snapshot's current entry.
RestoredAwayFromLocation ==
    /\ last.op = "initNavigator"
    /\ last.input.reload
    /\ last.input.stored.kind = "json"
    /\ navigator.index = 1
    /\ Len(navigator.history) = 2
    /\ navigator.history[2].pathname # location
    /\ navigator.history[2].state = "st"

\* The stored text is the JSON of an object with a usable index and history: the
\* index points into the history.
UsableSnapshot(text) ==
    /\ text.kind = "json"
    /\ text.value.index \in 0..Len(text.value.history) - 1

StorageIsSnapshot ==
    navigator # NoNavigator =>
        storage = JSONstringify(navigator.index, navigator.history)

\* A push made a second entry and emitted a change, and the stored text is the
\* snapshot of both entries at index 1.
PushedAndStored ==
    /\ last.op = "push"
    /\ last.notified = <<"change">>
    /\ navigator.index = 1
    /\ Len(navigator.history) = 2
    /\ storage.kind = "json"
    /\ storage.value.index = 1
    /\ Len(storage.value.history) = 2

\* The number of cleanup invocations so far.
Cleanups == CleanupsUpTo(emitters, Len(emitters))

\* The last operation was an on or an off call, made by the application or by
\* a listener during an emit, on the instance the singleton held at the call.
CallOnCurrent ==
    /\ last.op \in {"on", "off", "listener"}
    /\ last.input.sub.listener # "none"
    /\ last.input.cached # 0
    /\ last.input.instance = last.input.cached

\* The last operation was an off call that took the count of its instance from
\* positive to zero.
OffToZero ==
    /\ last.op \in {"off", "listener"}
    /\ last.input.count > 0
    /\ count(emitters[last.input.instance]) = 0

\* C13: an off call on the current instance that takes its count from positive
\* to zero invokes the cleanup of that instance once and makes the singleton
\* drop it; no other on or off call on the current instance invokes a cleanup
\* or drops the instance; and miniAppsEventEmitter() called while no instance
\* is held creates a new one, with no listeners and its cleanup not invoked.
TornDownAtZeroOnly ==
    /\ CallOnCurrent =>
          IF OffToZero
          THEN /\ cached = 0
               /\ Cleanups = last.input.cleanups + 1
               /\ emitters[last.input.instance].cleanups = 1
          ELSE /\ cached = last.input.cached
               /\ Cleanups = last.input.cleanups
    /\ (last.op = "miniAppsEventEmitter" /\ last.input.cached = 0) =>
          /\ cached = last.input.created + 1
          /\ Len(emitters) = last.input.created + 1
          /\ emitters[cached] = createMiniAppsEventEmitter

\* The application removed the only listener left on the current instance, and
\* the cleanup of the instance was invoked.
LastListenerOffTornDown ==
    /\ last.op = "off"
    /\ CallOnCurrent
    /\ last.input.count = 1
    /\ last.input.cleanups = 0
    /\ cached = 0
    /\ emitters[last.input.instance].listeners = <<>>
    /\ emitters[last.input.instance].cleanups = 1

\* C14: when a listener called by an emit removes the last listener of the
\* emitter, the singleton is not reset and no cleanup is invoked while that emit
\* is still in progress.
TeardownWaitsForEmission ==
    (/\ last.op = "listener"
     /\ OffToZero
     /\ emitting.instance = last.input.instance) =>
        /\ cached = last.input.cached
        /\ Cleanups = last.input.cleanups

\* C15: off with a listener that is not registered for the event returns
\* normally, leaves the listeners of the emitter as they were, and neither
\* resets the singleton nor invokes a cleanup.
OffOfUnregisteredIsNoOp ==
    (last.op = "off" /\ ~last.input.registered) =>
        /\ last.outcome = Returned
        /\ count(emitters[last.input.instance]) = last.input.count
        /\ cached = last.input.cached
        /\ Cleanups = last.input.cleanups

\* off was called on the current instance while it had no listener at all, and
\* the singleton still holds the instance.
OffOnEmptyCurrentInstance ==
    /\ last.op = "off"
    /\ ~last.input.registered
    /\ last.input.count = 0
    /\ last.input.instance = last.input.cached
    /\ cached = last.input.instance
    /\ emitters[cached].cleanups = 0

Component(v, k) == IF k <= Len(v) THEN v[k] ELSE 0

\* a is greater than or equal to b in the order of versions: they agree in
\* every component, or a is greater in the first component they differ in.
VersionAtLeast(a, b) ==
    LET n == IF Len(a) > Len(b) THEN Len(a) ELSE Len(b) IN
    \/ \A k \in 1..n : Component(a, k) = Component(b, k)
    \/ \E k \in 1..n :
          /\ Component(a, k) > Component(b, k)
          /\ \A j \in 1..(k - 1) : Component(a, j) = Component(b, j)

\* C17: isVersionAtLeast(version) returns true exactly when the passed version
\* is greater than or equal to the current version of the Mini App, in the
\* order of versions.
IsVersionAtLeastComparesPassed ==
    last.op = "isVersionAtLeast" =>
        (last.outcome.value <=> VersionAtLeast(last.input, version))

\* isVersionAtLeast was passed a version of one component that equals the
\* current version once its missing component counts as zero.
ShorterEqualVersionPassed ==
    /\ last.op = "isVersionAtLeast"
    /\ last.input = <<6>>
    /\ version = <<6, 0>>
    /\ last.outcome.value = TRUE

\* JSON has a form for the state of every entry of the history.
JSONRepresents(history) ==
    \A k \in DOMAIN history : history[k].state # "Date"

\* C18: initNavigator after a reload of a page that had a navigator returns a
\* navigator with the index and the history that navigator had when the page
\* was reloaded.
ReloadRoundTrip ==
    (/\ last.op = "initNavigator"
     /\ last.input.reload
     /\ last.input.left # NoNavigator) =>
        navigator = last.input.left

\* C18, amended: the same, for a history whose entry states JSON represents.
ReloadRoundTripOfJSONStates ==
    (/\ last.op = "initNavigator"
     /\ last.input.reload
     /\ last.input.left # NoNavigator
     /\ JSONRepresents(last.input.left.history)) =>
        navigator = last.input.left

\* A navigator at its second entry, pushed with a state, came back after a
\* reload of the page.
SecondEntryBackAfterReload ==
    /\ last.op = "initNavigator"
    /\ last.input.reload
    /\ last.input.left.index = 1
    /\ Len(last.input.left.history) = 2
    /\ last.input.left.history[2].state = "st"
    /\ navigator = last.input.left

\* C19: a call of setHeaderColor or setBackgroundColor in which postEvent throws
\* leaves the state of the component as it was, so the getters return the old
\* values, and notifies no change listener.
FailedMutatorChangesNothing ==
    [][(/\ last'.op \in {"setHeaderColor", "setBackgroundColor"}
        /\ last'.outcome.kind = "throw") =>
           /\ state' = state
           /\ last'.notified = <<>>]_vars

\* setBackgroundColor was called with another color than the current one,
\* postEvent threw, and the getter still gives the old color.
BackgroundColorKeptAfterThrow ==
    /\ last.op = "setBackgroundColor"
    /\ last.input = "#000000"
    /\ last.outcome = Threw("BridgeUnsupported")
    /\ last.notified = <<>>
    /\ state.backgroundColor = "#ffffff"

\* C20: initNavigator on a load that is not a reload returns the single-entry
\* navigator of the current location, whatever is stored under the key, and has
\* stored the snapshot of that navigator when it returns.
FreshLoadIgnoresSnapshot ==
    (last.op = "initNavigator" /\ ~last.input.reload) =>
        /\ navigator.index = 0
        /\ navigator.history = <<[pathname |-> location, state |-> "undefined"]>>
        /\ storage = [kind |-> "json",
                      value |-> [index |-> 0,
                                 history |-> <<[pathname |-> location]>>]]

\* initNavigator ran on a load that is not a reload while a usable snapshot of
\* two entries at index 1 was stored, and the snapshot was replaced.
ValidSnapshotReplacedOnFreshLoad ==
    /\ last.op = "initNavigator"
    /\ ~last.input.reload
    /\ UsableSnapshot(last.input.stored)
    /\ last.input.stored.value.index = 1
    /\ navigator.index = 0
    /\ Len(navigator.history) = 1
    /\ storage # last.input.stored

\* The instances whose cleanup was not invoked.
NotCleanedUp == { i \in DOMAIN emitters : emitters[i].cleanups = 0 }

\* C21: miniAppsEventEmitter() called while the singleton holds an instance
\* returns that instance and creates none; at most one instance whose cleanup
\* was not invoked exists, and it is the one the singleton holds; and the
\* cleanup of an instance is invoked at most once.
OneLiveInstance ==
    /\ (last.op = "miniAppsEventEmitter" /\ last.input.cached # 0) =>
          /\ last.input.instance = last.input.cached
          /\ cached = last.input.cached
          /\ Len(emitters) = last.input.created
    /\ Cardinality(NotCleanedUp) <= 1
    /\ NotCleanedUp \subseteq {cached}
    /\ \A i \in DOMAIN emitters : emitters[i].cleanups <= 1

\* After the teardown of the first instance a second one was created, and a
\* later call of miniAppsEventEmitter() returned the second again.
SecondInstanceReturnedAgain ==
    /\ last.op = "miniAppsEventEmitter"
    /\ last.input.cached = 2
    /\ last.input.instance = 2
    /\ Len(emitters) = 2
    /\ emitters[1].cleanups = 1
    /\ emitters[2].cleanups = 0
====
